---- MODULE Spec2Model ----
(***************************************************************************)
(* DocumentDbBotStorage (src/src/index.ts, the variant of lines 173-379):  *)
(* lazy initialization of the database and the collection with a queue of  *)
(* waiting calls, key derivation, and the bounded fan-out of document      *)
(* reads and upserts.  One JavaScript turn (a call of getData/saveData, or *)
(* the database client answering one request) is one action.               *)
(***************************************************************************)
EXTENDS Integers, Sequences, FiniteSets, TLC

(***************************************************************************)
(* Bounds of the model.                                                    *)
(***************************************************************************)
MaxCalls == 2

Calls == 1..MaxCalls

(***************************************************************************)
(* Program constants.                                                      *)
(***************************************************************************)
ONE_WEEK_IN_SECONDS == 604800
DEFAULT_THROUGHPUT == 20000
HTTP_CONFLICT == 409
HTTP_NOT_FOUND == 404
PartitionThreshold == 10000
ParallelConcurrency == 3
SerialConcurrency == 1

(***************************************************************************)
(* JavaScript values.  Values that can be null, undefined, a boolean or an *)
(* object are records, so that hasOwnProperty is membership in DOMAIN.     *)
(***************************************************************************)
Null == [null |-> TRUE]
Undefined == [undefined |-> TRUE]
False == [bool |-> FALSE]
True == [bool |-> TRUE]
Str(s) == [str |-> s]
Obj(name) == [obj |-> name]
EmptyObject == Obj("{}")
Truthy(v) == v \notin {Null, Undefined, False}
Or(a, b) == IF Truthy(a) THEN a ELSE b

QueryError(code, body) == [code |-> code, body |-> body]
Error(message) == [isError |-> TRUE, message |-> message]

(***************************************************************************)
(* The configuration the coordinator is constructed with.                  *)
(***************************************************************************)
databaseName == "foo"
collectionName == "bar"
Throughputs == {PartitionThreshold, DEFAULT_THROUGHPUT}

(***************************************************************************)
(* Contexts and data records of the callers.  An absent identifier is the  *)
(* empty string (both are falsy).                                          *)
(***************************************************************************)
Ids == {"", "1"}
AllContexts ==
  [userId : Ids, conversationId : Ids,
   persistUserData : BOOLEAN, persistConversationData : BOOLEAN]
Context(u, c, pu, pc) ==
  [userId |-> u, conversationId |-> c,
   persistUserData |-> pu, persistConversationData |-> pc]
NoContext == Context("", "", FALSE, FALSE)

Fields == {"userData", "privateConversationData", "conversationData"}
StorageData(u, p, c) ==
  [userData |-> u, privateConversationData |-> p, conversationData |-> c]
NoData == StorageData(Undefined, Undefined, Undefined)
FullData == StorageData(Obj("u"), Obj("p"), Obj("c"))
PartialData == StorageData(Obj("u2"), Undefined, Obj("c2"))
AllData == {FullData, PartialData, NoData}

(***************************************************************************)
(* Key Deriver.                                                            *)
(***************************************************************************)
userId(context) == "user:" \o context.userId
conversationId(context) == "conversation:" \o context.conversationId
privateConversationId(context) ==
  conversationId(context) \o ";" \o userId(context)

\* mutant: the user-data key does not depend on persistUserData
GetDataKeys_IgnoresPersistUserData(context) ==
  (IF context.userId # ""
     THEN <<[type |-> "userData", id |-> userId(context)]>>
          \o (IF context.conversationId # ""
                THEN <<[type |-> "privateConversationData",
                        id |-> privateConversationId(context)]>>
                ELSE <<>>)
     ELSE <<>>)
  \o (IF context.persistConversationData /\ context.conversationId # ""
        THEN <<[type |-> "conversationData", id |-> conversationId(context)]>>
        ELSE <<>>)

\* mutant: the conversation key is derived only when userId is set
GetDataKeys_ConversationNeedsUser(context) ==
  IF context.userId # ""
    THEN (IF context.persistUserData
            THEN <<[type |-> "userData", id |-> userId(context)]>>
            ELSE <<>>)
         \o (IF context.conversationId # ""
               THEN <<[type |-> "privateConversationData",
                       id |-> privateConversationId(context)]>>
               ELSE <<>>)
         \o (IF context.persistConversationData /\ context.conversationId # ""
               THEN <<[type |-> "conversationData",
                       id |-> conversationId(context)]>>
               ELSE <<>>)
    ELSE <<>>

\* getData: the keys object, in insertion order
GetDataKeys(context) ==
  (IF context.userId # ""
     THEN (IF context.persistUserData
             THEN <<[type |-> "userData", id |-> userId(context)]>>
             ELSE <<>>)
          \o (IF context.conversationId # ""
                THEN <<[type |-> "privateConversationData",
                        id |-> privateConversationId(context)]>>
                ELSE <<>>)
     ELSE <<>>)
  \o (IF context.persistConversationData /\ context.conversationId # ""
        THEN <<[type |-> "conversationData", id |-> conversationId(context)]>>
        ELSE <<>>)

\* mutant: the private document is written only with persistUserData
SaveDataDocs_PrivateNeedsPersistUserData(context, data) ==
  (IF context.userId # "" /\ context.persistUserData
     THEN <<[id |-> userId(context), data |-> data.userData]>>
          \o (IF context.conversationId # ""
                THEN <<[id |-> privateConversationId(context),
                        data |-> data.privateConversationData]>>
                ELSE <<>>)
     ELSE <<>>)
  \o (IF context.persistConversationData /\ context.conversationId # ""
        THEN <<[id |-> conversationId(context), data |-> data.conversationData]>>
        ELSE <<>>)

\* mutant: the user document is written whatever persistUserData says
SaveDataDocs_IgnoresPersistUserData(context, data) ==
  (IF context.userId # ""
     THEN <<[id |-> userId(context), data |-> data.userData]>>
          \o (IF context.conversationId # ""
                THEN <<[id |-> privateConversationId(context),
                        data |-> data.privateConversationData]>>
                ELSE <<>>)
     ELSE <<>>)
  \o (IF context.persistConversationData /\ context.conversationId # ""
        THEN <<[id |-> conversationId(context), data |-> data.conversationData]>>
        ELSE <<>>)

\* mutant: the private document and the conversation document get each
\* other's body
SaveDataDocs_SwapsBodies(context, data) ==
  (IF context.userId # ""
     THEN (IF context.persistUserData
             THEN <<[id |-> userId(context), data |-> data.userData]>>
             ELSE <<>>)
          \o (IF context.conversationId # ""
                THEN <<[id |-> privateConversationId(context),
                        data |-> data.conversationData]>>
                ELSE <<>>)
     ELSE <<>>)
  \o (IF context.persistConversationData /\ context.conversationId # ""
        THEN <<[id |-> conversationId(context),
                data |-> data.privateConversationData]>>
        ELSE <<>>)

\* mutant: the conversation document is pushed first
SaveDataDocs_ConversationFirst(context, data) ==
  (IF context.persistConversationData /\ context.conversationId # ""
     THEN <<[id |-> conversationId(context), data |-> data.conversationData]>>
     ELSE <<>>)
  \o (IF context.userId # ""
        THEN (IF context.persistUserData
                THEN <<[id |-> userId(context), data |-> data.userData]>>
                ELSE <<>>)
             \o (IF context.conversationId # ""
                   THEN <<[id |-> privateConversationId(context),
                           data |-> data.privateConversationData]>>
                   ELSE <<>>)
        ELSE <<>>)

\* saveData: the docs array
SaveDataDocs(context, data) ==
  (IF context.userId # ""
     THEN (IF context.persistUserData
             THEN <<[id |-> userId(context), data |-> data.userData]>>
             ELSE <<>>)
          \o (IF context.conversationId # ""
                THEN <<[id |-> privateConversationId(context),
                        data |-> data.privateConversationData]>>
                ELSE <<>>)
     ELSE <<>>)
  \o (IF context.persistConversationData /\ context.conversationId # ""
        THEN <<[id |-> conversationId(context), data |-> data.conversationData]>>
        ELSE <<>>)

collectionLink == "dbs/" \o databaseName \o "/colls/" \o collectionName
DocLink(docId) == collectionLink \o "/docs/" \o docId

(***************************************************************************)
(* State.                                                                  *)
(*   maxConcurrency, partitioned, collectionThroughput, defaultTtl:        *)
(*       the fields the constructor sets                                   *)
(*   initialization, pendingInit: the initialization state and the queue   *)
(*       of waiting continuations (each named by the call it continues)    *)
(*   initRequest, initCallback: the initialization request the client has  *)
(*       not answered yet, and the call whose continuation the running     *)
(*       sequence holds as `callback`                                      *)
(*   calls: per call of getData/saveData, its arguments, the state of its  *)
(*       fan-out, what its callback received, and what was thrown when it  *)
(*       was given no callback                                             *)
(*   requests: the document requests the client has not answered yet       *)
(*   store: the documents of the collection, by document link              *)
(*   issued, answered, settled: history of the initialization requests     *)
(*       handed to the client, of the client's answers to them, and of the *)
(*       error the sequence's final callback received                      *)
(***************************************************************************)
VARIABLES maxConcurrency, partitioned, collectionThroughput, defaultTtl,
          initialization, pendingInit, initRequest, initCallback,
          calls, requests, store, issued, answered, settled

vars == <<maxConcurrency, partitioned, collectionThroughput, defaultTtl,
          initialization, pendingInit, initRequest, initCallback,
          calls, requests, store, issued, answered, settled>>

config == <<maxConcurrency, partitioned, collectionThroughput, defaultTtl>>

InitOps == {"readDatabase", "createDatabase", "readCollection", "createCollection"}

NoCall ==
  [kind |-> "none", context |-> NoContext, data |-> NoData, items |-> <<>>,
   phase |-> "idle", next |-> 1, running |-> 0, done |-> FALSE, called |-> FALSE,
   newObj |-> <<>>, itemAnswers |-> <<>>,
   initCalls |-> 0, initResult |-> Undefined,
   callback |-> TRUE, raised |-> Undefined,
   cbCount |-> 0, cbErr |-> Undefined, cbData |-> Undefined]

\* constructor
Constructor(throughput, ttl, parallel) ==
  /\ collectionThroughput = throughput
  /\ defaultTtl = ttl
  /\ maxConcurrency = (IF parallel THEN ParallelConcurrency ELSE SerialConcurrency)
  /\ partitioned = (throughput > PartitionThreshold)
  /\ initialization = Undefined
  /\ pendingInit = <<>>

Init ==
  /\ \E throughput \in Throughputs, parallel \in BOOLEAN :
       Constructor(throughput, ONE_WEEK_IN_SECONDS, parallel)
  /\ initRequest = Null
  /\ initCallback = 0
  /\ calls = [c \in Calls |-> NoCall]
  /\ requests = {}
  /\ store = <<>>
  /\ issued = [op \in InitOps |-> 0]
  /\ answered = [op \in InitOps |-> Undefined]
  /\ settled = Undefined

(***************************************************************************)
(* The mutable state as one record, threaded through the synchronous steps *)
(* of a handler.                                                           *)
(***************************************************************************)
\* `reentry` is what the caller's code does in this turn: the callback of
\* call `who`, when it is invoked, calls getData(context, ...) as call `call`
NoReentry == [who |-> 0, call |-> 0, context |-> NoContext]

World ==
  [initialization |-> initialization, pendingInit |-> pendingInit,
   initRequest |-> initRequest, initCallback |-> initCallback,
   calls |-> calls, requests |-> requests, store |-> store,
   issued |-> issued, answered |-> answered, settled |-> settled,
   reentry |-> NoReentry]

Becomes(w) ==
  /\ initialization' = w.initialization
  /\ pendingInit' = w.pendingInit
  /\ initRequest' = w.initRequest
  /\ initCallback' = w.initCallback
  /\ calls' = w.calls
  /\ requests' = w.requests
  /\ store' = w.store
  /\ issued' = w.issued
  /\ answered' = w.answered
  /\ settled' = w.settled
  /\ UNCHANGED config

(***************************************************************************)
(* Error normalization: the pair <<err, resource>> the caller's callback   *)
(* receives.                                                               *)
(***************************************************************************)
\* mutant: an error that carries a code reaches the caller as it is
mapDocumentDbError_RawCode(err, resource) ==
  IF "isError" \in DOMAIN err THEN <<err, Null>>
  ELSE IF Truthy(err) /\ "message" \in DOMAIN err
    THEN <<Error(err.message), Null>>
  ELSE IF Truthy(err) /\ "code" \in DOMAIN err THEN <<err, Null>>
  ELSE IF Truthy(err) THEN <<Error("Unknown error"), Null>>
  ELSE <<Null, resource>>

\* mutant: code and body are looked at before the message
mapDocumentDbError_CodeFirst(err, resource) ==
  IF "isError" \in DOMAIN err THEN <<err, Null>>
  ELSE IF Truthy(err) /\ "code" \in DOMAIN err /\ "body" \in DOMAIN err
    THEN <<Error(ToString(err.code) \o ": " \o err.body), Null>>
  ELSE IF Truthy(err) /\ "message" \in DOMAIN err
    THEN <<Error(err.message), Null>>
  ELSE IF Truthy(err) THEN <<Error("Unknown error"), Null>>
  ELSE <<Null, resource>>

\* mutant: what the operation produced reaches the caller beside the error
mapDocumentDbError_KeepsResource(err, resource) ==
  IF "isError" \in DOMAIN err THEN <<err, resource>>
  ELSE IF Truthy(err) /\ "message" \in DOMAIN err
    THEN <<Error(err.message), resource>>
  ELSE IF Truthy(err) /\ "code" \in DOMAIN err
    THEN <<Error(ToString(err.code) \o ": " \o err.body), resource>>
  ELSE IF Truthy(err) THEN <<Error("Unknown error"), resource>>
  ELSE <<Null, resource>>

\* `${err.body}` of an error value that has no body
TemplateBody(err) == IF "body" \in DOMAIN err THEN err.body ELSE "undefined"

mapDocumentDbError(err, resource) ==
  IF "isError" \in DOMAIN err THEN <<err, Null>>
  ELSE IF Truthy(err) /\ "message" \in DOMAIN err
    THEN <<Error(err.message), Null>>
  ELSE IF Truthy(err) /\ "code" \in DOMAIN err
    THEN <<Error(ToString(err.code) \o ": " \o TemplateBody(err)), Null>>
  ELSE IF Truthy(err) THEN <<Error("Unknown error"), Null>>
  ELSE <<Null, resource>>

RECURSIVE init(_, _)

\* calling `callback` when the caller gave none
TypeError == Error("callback is not a function")

\* the caller's callback, reached through mapDocumentDbError, and the call
\* of getData the caller may make from inside it; without a callback the
\* function mapDocumentDbError returned calls undefined, which throws (the
\* last thing the turn of a coordinator with one call does)
UserCallback(w, c, err, resource) ==
  LET m == mapDocumentDbError(err, resource)
      w1 == [w EXCEPT !.calls[c] =
               [@ EXCEPT !.cbCount = @ + 1, !.cbErr = m[1], !.cbData = m[2],
                         !.phase = "done"]]
  IN
  IF w.calls[c].callback
    THEN IF w.reentry.who = c
           THEN init([w1 EXCEPT !.reentry = NoReentry,
                                !.calls[w.reentry.call] =
                                  [NoCall EXCEPT
                                     !.kind = "getData",
                                     !.context = w.reentry.context,
                                     !.items = GetDataKeys(w.reentry.context)]],
                     w.reentry.call)
           ELSE w1
    ELSE [w EXCEPT !.calls[c].raised = TypeError, !.calls[c].phase = "done"]

(***************************************************************************)
(* Fan-out of readData / writeData: async.mapValuesLimit / async.eachLimit *)
(* over the items of a call with at most maxConcurrency of them running.   *)
(***************************************************************************)
\* what the fan-out hands to its callback besides the error
FanoutResult(cr) ==
  IF cr.kind = "getData" THEN cr.newObj ELSE <<Undefined, Undefined>>

\* mutant: the fan-out calls back on every error and at every end
FanoutCallback_NotOnce(w, c, err) ==
  UserCallback([w EXCEPT !.calls[c].called = TRUE], c, err,
               FanoutResult(w.calls[c]))

\* the callback of the fan-out, which fires once
FanoutCallback(w, c, err) ==
  IF w.calls[c].called THEN w
  ELSE UserCallback([w EXCEPT !.calls[c].called = TRUE], c, err,
                    FanoutResult(w.calls[c]))

\* mutant: the partition key is sent whatever the throughput
PartitionKey_Always(docId) == Str(docId)


PartitionKey(docId) == IF partitioned THEN Str(docId) ELSE Null

\* readData: the request of the iteratee for one key
ReadRequest(c, idx, key) ==
  [call |-> c, idx |-> idx, op |-> "readDocument", link |-> DocLink(key.id),
   options |-> [partitionKey |-> PartitionKey(key.id)]]

\* mutant: the upsert leaves id generation to the database
UpsertRequest_AutomaticId(c, idx, doc) ==
  [call |-> c, idx |-> idx, op |-> "upsertDocument", link |-> collectionLink,
   body |-> [id |-> doc.id, data |-> Or(doc.data, EmptyObject)],
   options |-> [partitionKey |-> IF partitioned THEN Str(doc.id) ELSE Null,
                disableAutomaticIdGeneration |-> FALSE]]

\* mutant: the body is sent as the data record gave it
UpsertRequest_NoDefault(c, idx, doc) ==
  [call |-> c, idx |-> idx, op |-> "upsertDocument", link |-> collectionLink,
   body |-> [id |-> doc.id, data |-> doc.data],
   options |-> [partitionKey |-> IF partitioned THEN Str(doc.id) ELSE Null,
                disableAutomaticIdGeneration |-> TRUE]]

\* writeData: the request of the iteratee for one doc
UpsertRequest(c, idx, doc) ==
  [call |-> c, idx |-> idx, op |-> "upsertDocument", link |-> collectionLink,
   body |-> [id |-> doc.id, data |-> Or(doc.data, EmptyObject)],
   options |-> [partitionKey |-> PartitionKey(doc.id),
                disableAutomaticIdGeneration |-> TRUE]]

\* one iteratee is started: its request is handed to the client
Iteratee(w, c, idx) ==
  LET cr == w.calls[c]
      item == cr.items[idx]
  IN  IF cr.kind = "getData"
        THEN [w EXCEPT !.requests = @ \cup {ReadRequest(c, idx, item)}]
        ELSE [w EXCEPT !.requests = @ \cup {UpsertRequest(c, idx, item)},
                       !.calls[c].items[idx].data = Or(item.data, EmptyObject)]

\* mutant: every item is started at once, whatever the limit
RECURSIVE replenish_NoLimit(_, _)
replenish_NoLimit(w, c) ==
  LET cr == w.calls[c] IN
  IF ~cr.done
    THEN IF cr.next > Len(cr.items)
           THEN LET w1 == [w EXCEPT !.calls[c].done = TRUE] IN
                IF cr.running <= 0 THEN FanoutCallback(w1, c, Null) ELSE w1
           ELSE replenish_NoLimit(
                  Iteratee([w EXCEPT !.calls[c].running = @ + 1,
                                     !.calls[c].next = @ + 1], c, cr.next), c)
    ELSE w

\* mutant: a fan-out over no item never calls back
RECURSIVE replenish_SilentWhenEmpty(_, _)
replenish_SilentWhenEmpty(w, c) ==
  LET cr == w.calls[c] IN
  IF cr.running < maxConcurrency /\ ~cr.done
    THEN IF cr.next > Len(cr.items)
           THEN LET w1 == [w EXCEPT !.calls[c].done = TRUE] IN
                IF cr.running <= 0 /\ cr.items # <<>>
                  THEN FanoutCallback(w1, c, Null) ELSE w1
           ELSE replenish_SilentWhenEmpty(
                  Iteratee([w EXCEPT !.calls[c].running = @ + 1,
                                     !.calls[c].next = @ + 1], c, cr.next), c)
    ELSE w

\* mutant: in serial mode the fan-out ends after its first item
RECURSIVE replenish_SerialStopsAfterOne(_, _)
replenish_SerialStopsAfterOne(w, c) ==
  LET cr == w.calls[c] IN
  IF cr.running < maxConcurrency /\ ~cr.done
    THEN IF cr.next > Len(cr.items)
              \/ (maxConcurrency = SerialConcurrency /\ cr.next > 1)
           THEN LET w1 == [w EXCEPT !.calls[c].done = TRUE] IN
                IF cr.running <= 0 THEN FanoutCallback(w1, c, Null) ELSE w1
           ELSE replenish_SerialStopsAfterOne(
                  Iteratee([w EXCEPT !.calls[c].running = @ + 1,
                                     !.calls[c].next = @ + 1], c, cr.next), c)
    ELSE w

RECURSIVE replenish(_, _)
replenish(w, c) ==
  LET cr == w.calls[c] IN
  IF cr.running < maxConcurrency /\ ~cr.done
    THEN IF cr.next > Len(cr.items)
           THEN LET w1 == [w EXCEPT !.calls[c].done = TRUE] IN
                IF cr.running <= 0 THEN FanoutCallback(w1, c, Null) ELSE w1
           ELSE replenish(
                  Iteratee([w EXCEPT !.calls[c].running = @ + 1,
                                     !.calls[c].next = @ + 1], c, cr.next), c)
    ELSE w

\* mutant: once an item failed the next items are started all the same
iterateeCallback_GoesOnAfterError(w, c, idx, err, value) ==
  LET w1 == [w EXCEPT !.calls[c].running = @ - 1]
      cr == w1.calls[c]
  IN  IF Truthy(err)
        THEN LET w3 == FanoutCallback(w1, c, err) IN
             IF cr.next > Len(cr.items)
               THEN [w3 EXCEPT !.calls[c].done = TRUE]
               ELSE Iteratee([w3 EXCEPT !.calls[c].running = @ + 1,
                                        !.calls[c].next = @ + 1], c, cr.next)
        ELSE LET w2 == IF cr.kind = "getData"
                         THEN [w1 EXCEPT !.calls[c].newObj =
                                 (cr.items[idx].type :> value) @@ @]
                         ELSE w1
             IN  IF cr.done /\ cr.running <= 0
                   THEN FanoutCallback(w2, c, Null)
                   ELSE replenish(w2, c)

\* mutant: an item that failed is handed to the client again
iterateeCallback_Retries(w, c, idx, err, value) ==
  LET w1 == [w EXCEPT !.calls[c].running = @ - 1]
      cr == w1.calls[c]
  IN  IF Truthy(err)
        THEN Iteratee(w, c, idx)
        ELSE LET w2 == IF cr.kind = "getData"
                         THEN [w1 EXCEPT !.calls[c].newObj =
                                 (cr.items[idx].type :> value) @@ @]
                         ELSE w1
             IN  IF cr.done /\ cr.running <= 0
                   THEN FanoutCallback(w2, c, Null)
                   ELSE replenish(w2, c)

\* the callback an iteratee is given: one item is answered
iterateeCallback(w, c, idx, err, value) ==
  LET w1 == [w EXCEPT !.calls[c].running = @ - 1]
      cr == w1.calls[c]
  IN  IF Truthy(err)
        THEN FanoutCallback([w1 EXCEPT !.calls[c].done = TRUE], c, err)
        ELSE LET w2 == IF cr.kind = "getData"
                         THEN [w1 EXCEPT !.calls[c].newObj =
                                 (cr.items[idx].type :> value) @@ @]
                         ELSE w1
             IN  IF cr.done /\ cr.running <= 0
                   THEN FanoutCallback(w2, c, Null)
                   ELSE replenish(w2, c)

(***************************************************************************)
(* getData / saveData after the init task: the continuation `next` that    *)
(* init is given by async.waterfall / async.series.                        *)
(***************************************************************************)

\* mutant: the document operations start whatever init answered
AfterInit_IgnoresError(w, c, err) ==
  replenish([w EXCEPT !.calls[c].initCalls = @ + 1,
                      !.calls[c].initResult = err,
                      !.calls[c].phase = "docs"], c)
AfterInit(w, c, err) ==
  LET w1 == [w EXCEPT !.calls[c].initCalls = @ + 1,
                      !.calls[c].initResult = err]
  IN  IF Truthy(err)
        THEN UserCallback(w1, c, err, Undefined)
        ELSE replenish([w1 EXCEPT !.calls[c].phase = "docs"], c)

(***************************************************************************)
(* Initialization requests.                                                *)
(***************************************************************************)
Hand(w, request) ==
  [w EXCEPT !.initRequest = request, !.issued[request.op] = @ + 1]

\* databaseExists
ReadDatabaseRequest ==
  [op |-> "readDatabase", link |-> "dbs/" \o databaseName]

\* collectionExists
ReadCollectionRequest ==
  [op |-> "readCollection",
   link |-> "dbs/" \o databaseName \o "/colls/" \o collectionName]

\* createDatabaseIfNotExists, second task
CreateDatabaseRequest ==
  [op |-> "createDatabase", body |-> [id |-> databaseName]]

\* mutant: the collection is created under the name of the database
CreateCollectionRequest_NamesDatabase ==
  [op |-> "createCollection", link |-> "dbs/" \o databaseName,
   body |-> [defaultTtl |-> defaultTtl, id |-> databaseName,
             partitionKey |-> IF partitioned
                                THEN [paths |-> <<"/id">>, kind |-> "Hash"]
                                ELSE Null],
   options |-> [offerThroughput |-> collectionThroughput]]

\* createCollectionIfNotExists, second task
CreateCollectionRequest ==
  [op |-> "createCollection", link |-> "dbs/" \o databaseName,
   body |-> [defaultTtl |-> defaultTtl, id |-> collectionName,
             partitionKey |-> IF partitioned
                                THEN [paths |-> <<"/id">>, kind |-> "Hash"]
                                ELSE Null],
   options |-> [offerThroughput |-> collectionThroughput]]

\* mutant: whatever error a probe is answered with means "does not exist"
ProbeError_AnyErrorIsAbsent(err) == Null

\* the probes answer "does not exist" for not-found
ProbeError(err) ==
  IF Truthy(err) /\ err.code = HTTP_NOT_FOUND THEN Null ELSE err

\* mutant: conflict is an error like any other
CreateError_ConflictFails(err) == err

\* the creates answer success for conflict
CreateError(err) ==
  IF Truthy(err) /\ err.code # HTTP_CONFLICT THEN err ELSE Null

\* mutant: the waiters are released as if initialization had succeeded
RECURSIVE forEachPending_Success(_, _, _)
forEachPending_Success(w, waiters, err) ==
  IF waiters = <<>> THEN w
  ELSE forEachPending_Success(AfterInit(w, Head(waiters), Null),
                              Tail(waiters), err)

\* pendingInit.forEach((x) => x(err))
RECURSIVE forEachPending(_, _, _)
forEachPending(w, waiters, err) ==
  IF waiters = <<>> THEN w
  ELSE forEachPending(AfterInit(w, Head(waiters), err), Tail(waiters), err)

\* mutant: the queue is emptied without its waiters being called
InitSettled_DropsWaiters(w, err) ==
  LET w1 == AfterInit([w EXCEPT !.settled = err, !.initRequest = Null],
                      w.initCallback, err)
  IN  [w1 EXCEPT !.pendingInit = <<>>]

\* init: the final callback of the sequence of the two steps
InitSettled(w, err) ==
  LET w1 == AfterInit([w EXCEPT !.settled = err, !.initRequest = Null],
                      w.initCallback, err)
      w2 == forEachPending(w1, w1.pendingInit, err)
  IN  [w2 EXCEPT !.pendingInit = <<>>]

\* mutant: a call that finds initialization pending starts it again
init_StartsAgain(w, c) ==
  IF w.initialization = True
    THEN AfterInit(w, c, Null)
  ELSE IF Truthy(w.initialization)
    THEN AfterInit(w, c, w.initialization)
  ELSE Hand([w EXCEPT !.initialization = False, !.initCallback = c,
                      !.calls[c].phase = "init"],
            ReadDatabaseRequest)

\* mutant: a call that finds initialization pending goes on without waiting
init_DoesNotWait(w, c) ==
  IF w.initialization = True \/ w.initialization = False
    THEN AfterInit(w, c, Null)
  ELSE IF Truthy(w.initialization)
    THEN AfterInit(w, c, w.initialization)
  ELSE Hand([w EXCEPT !.initialization = False, !.initCallback = c,
                      !.calls[c].phase = "init"],
            ReadDatabaseRequest)

\* init
init(w, c) ==
  IF w.initialization = True
    THEN AfterInit(w, c, Null)
  ELSE IF Truthy(w.initialization)
    THEN AfterInit(w, c, w.initialization)
  ELSE IF w.initialization = False
    THEN [w EXCEPT !.pendingInit = Append(@, c), !.calls[c].phase = "pending"]
  ELSE Hand([w EXCEPT !.initialization = False, !.initCallback = c,
                      !.calls[c].phase = "init"],
            ReadDatabaseRequest)

\* mutant: the collection step is started whatever the database step answered
DatabaseStep_GoesOn(w, op, err) ==
  IF op = "readDatabase"
    THEN IF Truthy(err) /\ err.code = HTTP_NOT_FOUND
           THEN Hand(w, CreateDatabaseRequest)
           ELSE Hand(w, ReadCollectionRequest)
    ELSE Hand(w, ReadCollectionRequest)

\* createDatabaseIfNotExists: the answers of readDatabase and createDatabase
DatabaseStep(w, op, err) ==
  IF op = "readDatabase"
    THEN IF Truthy(ProbeError(err)) THEN InitSettled(w, ProbeError(err))
         ELSE IF err = Null THEN Hand(w, ReadCollectionRequest)
         ELSE Hand(w, CreateDatabaseRequest)
    ELSE IF Truthy(CreateError(err)) THEN InitSettled(w, CreateError(err))
         ELSE Hand(w, ReadCollectionRequest)

\* mutant: the collection is created although the probe found it
CollectionStep_AlwaysCreates(w, op, err) ==
  IF op = "readCollection"
    THEN IF Truthy(ProbeError(err)) THEN InitSettled(w, ProbeError(err))
         ELSE Hand(w, CreateCollectionRequest)
    ELSE InitSettled(w, CreateError(err))

\* createCollectionIfNotExists: the answers of readCollection and createCollection
CollectionStep(w, op, err) ==
  IF op = "readCollection"
    THEN IF Truthy(ProbeError(err)) THEN InitSettled(w, ProbeError(err))
         ELSE IF err = Null THEN InitSettled(w, Null)
         ELSE Hand(w, CreateCollectionRequest)
    ELSE InitSettled(w, CreateError(err))

\* mutant: not-found is passed on as the error it is
tryReadDocument_NotFoundFails(w, r, err, resource) ==
  iterateeCallback(w, r.call, r.idx, err, Or(resource, [data |-> Null]))

\* mutant: the default document of a key that was not found is stored
tryReadDocument_StoresDefault(w, r, err, resource) ==
  iterateeCallback(
    IF Truthy(err) /\ err.code = HTTP_NOT_FOUND
      THEN [w EXCEPT !.store = (r.link :> [data |-> Null]) @@ @]
      ELSE w,
    r.call, r.idx, ProbeError(err), Or(resource, [data |-> Null]))

\* tryReadDocument, and the second task of the iteratee's waterfall
tryReadDocument(w, r, err, resource) ==
  iterateeCallback(w, r.call, r.idx, ProbeError(err),
                   Or(resource, [data |-> Null]))

(***************************************************************************)
(* What the database client may answer.                                    *)
(***************************************************************************)
NotFound == QueryError(HTTP_NOT_FOUND, "Not Found")
Conflict == QueryError(HTTP_CONFLICT, "Exists")
Failure == QueryError(500, "Internal Server Error")

InitAnswers(op) ==
  IF op \in {"readDatabase", "readCollection"}
    THEN {Null, NotFound, Failure}
    ELSE {Null, Conflict, Failure}

(***************************************************************************)
(* Actions.                                                                *)
(***************************************************************************)
MainContexts ==
  {Context("1", "1", TRUE, FALSE), Context("", "1", FALSE, TRUE), NoContext}
MainData == {PartialData}

NextCall(c) == calls[c].phase = "idle" /\ \A d \in Calls : d < c => calls[d].phase # "idle"

GetData(c, context) ==
  /\ NextCall(c)
  /\ Becomes(init([World EXCEPT !.calls[c] =
                     [NoCall EXCEPT !.kind = "getData", !.context = context,
                                    !.items = GetDataKeys(context)]], c))

SaveData(c, context, data) ==
  /\ NextCall(c)
  /\ Becomes(init([World EXCEPT !.calls[c] =
                     [NoCall EXCEPT !.kind = "saveData", !.context = context,
                                    !.data = data,
                                    !.items = SaveDataDocs(context, data)]], c))

AnswerInit(err) ==
  /\ initRequest # Null
  /\ err \in InitAnswers(initRequest.op)
  /\ LET op == initRequest.op
         w == [World EXCEPT !.answered[op] = err]
     IN  Becomes(IF op \in {"readDatabase", "createDatabase"}
                   THEN DatabaseStep(w, op, err)
                   ELSE CollectionStep(w, op, err))

AnswerReadDocument(r, err) ==
  /\ r \in requests
  /\ r.op = "readDocument"
  /\ err \in {IF r.link \in DOMAIN store THEN Null ELSE NotFound, Failure}
  /\ LET w == [World EXCEPT !.requests = @ \ {r},
                            !.calls[r.call].itemAnswers = (r.idx :> err) @@ @]
     IN  Becomes(tryReadDocument(w, r, err,
                                 IF err = Null THEN store[r.link] ELSE Null))

AnswerUpsertDocument(r, err) ==
  /\ r \in requests
  /\ r.op = "upsertDocument"
  /\ err \in {Null, Failure}
  /\ LET w == [World EXCEPT !.requests = @ \ {r},
                            !.calls[r.call].itemAnswers = (r.idx :> err) @@ @,
                            !.store = IF err = Null
                                        THEN (DocLink(r.body.id) :> r.body) @@ @
                                        ELSE @]
     IN  Becomes(iterateeCallback(w, r.call, r.idx, err, r.body))

Next ==
  \/ \E c \in Calls, context \in MainContexts : GetData(c, context)
  \/ \E c \in Calls, context \in MainContexts, data \in MainData :
       SaveData(c, context, data)
  \/ \E err \in {Null, NotFound, Conflict, Failure} : AnswerInit(err)
  \/ \E r \in requests, err \in {Null, NotFound, Failure} :
       AnswerReadDocument(r, err)
  \/ \E r \in requests, err \in {Null, Failure} : AnswerUpsertDocument(r, err)

Spec == Init /\ [][Next]_vars

(***************************************************************************)
(* One call on a coordinator of any configuration, with any context and    *)
(* any data record, on a collection that may already hold documents.       *)
(***************************************************************************)
OneThroughputs ==
  {400, PartitionThreshold, PartitionThreshold + 1, DEFAULT_THROUGHPUT}
Ttls == {ONE_WEEK_IN_SECONDS, 3600}
StoredDocument(docId) == [id |-> docId, data |-> Obj("old")]
PreStore ==
  [link \in {DocLink(docId) :
               docId \in {"user:1", "conversation:1", "conversation:1;user:1",
                          "user:2"}}
     |-> StoredDocument(CHOOSE docId \in {"user:1", "conversation:1",
                                          "conversation:1;user:1", "user:2"} :
                          DocLink(docId) = link)]
InitialStores == {<<>>, PreStore}

InitOne ==
  /\ \E throughput \in OneThroughputs, ttl \in Ttls, parallel \in BOOLEAN :
       Constructor(throughput, ttl, parallel)
  /\ initRequest = Null
  /\ initCallback = 0
  /\ calls = [c \in Calls |-> NoCall]
  /\ requests = {}
  /\ store \in InitialStores
  /\ issued = [op \in InitOps |-> 0]
  /\ answered = [op \in InitOps |-> Undefined]
  /\ settled = Undefined

NextOne ==
  \/ \E context \in AllContexts : GetData(1, context)
  \/ \E context \in AllContexts, data \in AllData : SaveData(1, context, data)
  \/ \E err \in {Null, NotFound, Conflict, Failure} : AnswerInit(err)
  \/ \E r \in requests, err \in {Null, NotFound, Failure} :
       AnswerReadDocument(r, err)
  \/ \E r \in requests, err \in {Null, Failure} : AnswerUpsertDocument(r, err)

SpecOne == InitOne /\ [][NextOne]_vars

(***************************************************************************)
(* The coordinator constructed with the defaults of its optional           *)
(* parameters (no throughput, no time-to-live, no concurrency mode).       *)
(***************************************************************************)
InitDefault ==
  /\ Constructor(DEFAULT_THROUGHPUT, ONE_WEEK_IN_SECONDS, TRUE)
  /\ initRequest = Null
  /\ initCallback = 0
  /\ calls = [c \in Calls |-> NoCall]
  /\ requests = {}
  /\ store \in InitialStores
  /\ issued = [op \in InitOps |-> 0]
  /\ answered = [op \in InitOps |-> Undefined]
  /\ settled = Undefined

SpecDefault == InitDefault /\ [][NextOne]_vars

(***************************************************************************)
(* The error values a failing upsert may be answered with: the client's    *)
(* {code, body}, the same with a message, a bare message, a code alone, an *)
(* object with none of these, and an Error instance.                       *)
(***************************************************************************)
ErrorShapes ==
  {Failure,
   [code |-> 500, body |-> "Internal Server Error", message |-> "busy"],
   [message |-> "busy"],
   [code |-> 500],
   Obj("e"),
   Error("boom")}

AnswerUpsertDocumentError(r, err) ==
  /\ r \in requests
  /\ r.op = "upsertDocument"
  /\ err \in ErrorShapes
  /\ LET w == [World EXCEPT !.requests = @ \ {r},
                            !.calls[r.call].itemAnswers = (r.idx :> err) @@ @]
     IN  Becomes(iterateeCallback(w, r.call, r.idx, err, r.body))

NextShapes ==
  \/ NextOne
  \/ \E r \in requests, err \in ErrorShapes : AnswerUpsertDocumentError(r, err)

SpecShapes == InitDefault /\ [][NextShapes]_vars

(***************************************************************************)
(* saveData(context, data) with the optional callback left out.            *)
(***************************************************************************)
SaveDataNoCallback(c, context, data) ==
  /\ NextCall(c)
  /\ Becomes(init([World EXCEPT !.calls[c] =
                     [NoCall EXCEPT !.kind = "saveData", !.context = context,
                                    !.data = data, !.callback = FALSE,
                                    !.items = SaveDataDocs(context, data)]], c))

NextNoCallback ==
  \/ \E context \in AllContexts, data \in AllData :
       SaveDataNoCallback(1, context, data)
  \/ \E err \in {Null, NotFound, Conflict, Failure} : AnswerInit(err)
  \/ \E r \in requests, err \in {Null, Failure} : AnswerUpsertDocument(r, err)

SpecNoCallback == InitDefault /\ [][NextNoCallback]_vars

(***************************************************************************)
(* A save, and when it has completed without error a load with the same    *)
(* context, on the same coordinator or on a second coordinator constructed *)
(* on the same client with the same configuration.                         *)
(***************************************************************************)
NewCoordinator ==
  /\ calls[1].cbCount = 1
  /\ calls[1].cbErr = Null
  /\ calls[2].phase = "idle"
  /\ settled # Undefined
  /\ initialization' = Undefined
  /\ pendingInit' = <<>>
  /\ initRequest' = Null
  /\ initCallback' = 0
  /\ issued' = [op \in InitOps |-> 0]
  /\ answered' = [op \in InitOps |-> Undefined]
  /\ settled' = Undefined
  /\ UNCHANGED <<config, calls, requests, store>>

GetDataAfterSave ==
  /\ calls[1].kind = "saveData"
  /\ calls[1].cbCount = 1
  /\ calls[1].cbErr = Null
  /\ GetData(2, calls[1].context)

NextRoundTrip ==
  \/ \E context \in AllContexts, data \in AllData : SaveData(1, context, data)
  \/ NewCoordinator
  \/ GetDataAfterSave
  \/ \E err \in {Null, NotFound, Conflict, Failure} : AnswerInit(err)
  \/ \E r \in requests, err \in {Null, NotFound, Failure} :
       AnswerReadDocument(r, err)
  \/ \E r \in requests, err \in {Null, Failure} : AnswerUpsertDocument(r, err)

SpecRoundTrip == InitDefault /\ [][NextRoundTrip]_vars

(***************************************************************************)
(* Calls of getData made from inside the callback of a call that the       *)
(* settlement of initialization releases.  The coordinator is given room   *)
(* for one call more than MaxCalls, which only such a call can take.       *)
(***************************************************************************)
ReentrantCalls == 1..(MaxCalls + 1)
ReentrantContexts == {NoContext, Context("", "1", FALSE, TRUE)}

InitReentrant ==
  /\ \E throughput \in Throughputs, parallel \in BOOLEAN :
       Constructor(throughput, ONE_WEEK_IN_SECONDS, parallel)
  /\ initRequest = Null
  /\ initCallback = 0
  /\ calls = [c \in ReentrantCalls |-> NoCall]
  /\ requests = {}
  /\ store = <<>>
  /\ issued = [op \in InitOps |-> 0]
  /\ answered = [op \in InitOps |-> Undefined]
  /\ settled = Undefined

\* the client answers an initialization request, and the callback of call
\* `who` calls getData(context, ...) when it is invoked in that turn
AnswerInitReentrant(err, who, context) ==
  /\ initRequest # Null
  /\ err \in InitAnswers(initRequest.op)
  /\ who = initCallback \/ \E i \in DOMAIN pendingInit : pendingInit[i] = who
  /\ \E k \in ReentrantCalls :
       /\ calls[k].phase = "idle"
       /\ \A d \in ReentrantCalls : d < k => calls[d].phase # "idle"
       /\ LET op == initRequest.op
              w == [World EXCEPT
                      !.answered[op] = err,
                      !.reentry = [who |-> who, call |-> k,
                                   context |-> context]]
          IN  Becomes(IF op \in {"readDatabase", "createDatabase"}
                        THEN DatabaseStep(w, op, err)
                        ELSE CollectionStep(w, op, err))
       /\ calls'[k].phase # "idle"

NextReentrant ==
  \/ \E c \in Calls, context \in ReentrantContexts : GetData(c, context)
  \/ \E c \in Calls, context \in ReentrantContexts, data \in MainData :
       SaveData(c, context, data)
  \/ \E err \in {Null, NotFound, Conflict, Failure} : AnswerInit(err)
  \/ \E err \in {Null, NotFound, Conflict, Failure}, who \in Calls,
        context \in ReentrantContexts : AnswerInitReentrant(err, who, context)
  \/ \E r \in requests, err \in {Null, NotFound, Failure} :
       AnswerReadDocument(r, err)
  \/ \E r \in requests, err \in {Null, Failure} : AnswerUpsertDocument(r, err)

SpecReentrant == InitReentrant /\ [][NextReentrant]_vars

(***************************************************************************)
(* Calls whose identifiers are any strings, the separator of the private   *)
(* key among their characters.                                             *)
(***************************************************************************)
KeyContexts ==
  {Context("", "A;user:B", FALSE, TRUE),
   Context("B", "A", FALSE, FALSE),
   Context("B", "A", TRUE, TRUE)}

NextKeys ==
  \/ \E c \in Calls, context \in KeyContexts : GetData(c, context)
  \/ \E c \in Calls, context \in KeyContexts, data \in {FullData} :
       SaveData(c, context, data)
  \/ \E err \in {Null, NotFound, Conflict, Failure} : AnswerInit(err)
  \/ \E r \in requests, err \in {Null, NotFound, Failure} :
       AnswerReadDocument(r, err)
  \/ \E r \in requests, err \in {Null, Failure} : AnswerUpsertDocument(r, err)

SpecKeys == Init /\ [][NextKeys]_vars

(***************************************************************************)
(* Properties.                                                             *)
(***************************************************************************)
Range(f) == {f[x] : x \in DOMAIN f}
Made(c) == calls[c].phase # "idle"
Quiescent == initRequest = Null /\ requests = {}
DatabaseStepSucceeded ==
  \/ answered["readDatabase"] = Null
  \/ /\ answered["readDatabase"] = NotFound
     /\ answered["createDatabase"] \in {Null, Conflict}
CollectionStepSucceeded ==
  \/ answered["readCollection"] = Null
  \/ /\ answered["readCollection"] = NotFound
     /\ answered["createCollection"] \in {Null, Conflict}

\* C1: at most one initialization sequence is ever started: each of
\* readDatabase, createDatabase, readCollection and createCollection is handed
\* to the client at most once, however many calls arrive, and a call that
\* arrives while initialization is in flight is queued instead.
C1_OneInitialization ==
  /\ \A op \in InitOps : issued[op] <= 1
  /\ \A c \in Calls : calls[c].phase = "init" => c = initCallback

C1_Witness ==
  /\ initRequest # Null
  /\ \E c \in Calls : c # initCallback /\ calls[c].phase = "pending"

\* C2: every call released by the settlement of initialization is given the
\* outcome of the sequence: on success its first document operations are
\* started, on failure with error E its callback receives the error made of E.
C2_SameOutcome ==
  \A c \in Calls :
    calls[c].initCalls > 0 =>
      /\ settled # Undefined
      /\ calls[c].initResult = settled
      /\ ~Truthy(settled) => calls[c].next > 1 \/ calls[c].items = <<>>
      /\ Truthy(settled) =>
           /\ calls[c].cbCount = 1
           /\ calls[c].cbErr = mapDocumentDbError(settled, Undefined)[1]

C2_Witness ==
  /\ Truthy(settled)
  /\ \A c \in Calls : Made(c) /\ calls[c].cbErr = Error("500: Internal Server Error")
  /\ \E c \in Calls : c # initCallback

\* C3: the step that settles initialization calls the continuation of the
\* triggering call and of every queued call, each for the first time, and no
\* continuation is ever called twice.
C3_ReleasedOnce ==
  [][\A c \in Calls :
       /\ calls'[c].initCalls <= 1
       /\ (settled = Undefined /\ settled' # Undefined
           /\ (c = initCallback \/ c \in Range(pendingInit)))
          => calls[c].initCalls = 0 /\ calls'[c].initCalls = 1]_vars

C3_Witness ==
  /\ settled = Null
  /\ \E c \in Calls : c # initCallback /\ calls[c].initCalls = 1
  /\ calls[initCallback].initCalls = 1

\* C4: once the client has answered every request it was given, every call
\* that was made has had its callback invoked.
C4_EveryCallAnswered ==
  Quiescent => \A c \in Calls : Made(c) => calls[c].cbCount >= 1

\* C5: the callback of one call is never invoked more than once.
C5_CallbackOnce == \A c \in Calls : calls[c].cbCount <= 1

C5_Witness ==
  \E c \in Calls :
    /\ calls[c].cbCount = 1
    /\ DOMAIN calls[c].itemAnswers = {1, 2}
    /\ calls[c].itemAnswers[1] = Failure
    /\ calls[c].itemAnswers[2] = Failure

\* C6: whenever a document request has been handed to the client,
\* initialization has settled without error, after the database step and then
\* the collection step succeeded.
C6_DocumentsAfterInit ==
  (requests # {} \/ \E c \in Calls : calls[c].next > 1) =>
    /\ settled = Null
    /\ DatabaseStepSucceeded
    /\ CollectionStepSucceeded

C6_Witness ==
  /\ \E r \in requests : r.op = "readDocument"
  /\ \E r \in requests : r.op = "upsertDocument"

\* C7: a call whose initialization failed has no document request handed to
\* the client, its callback has received an error, and the step leaves the
\* store as it was.
C7_FailedInitNoDocuments ==
  [][\A c \in Calls :
       Truthy(calls'[c].initResult) =>
         /\ calls'[c].next = 1
         /\ \A r \in requests' : r.call # c
         /\ calls'[c].cbCount = 1
         /\ "isError" \in DOMAIN calls'[c].cbErr
         /\ calls'[c].cbData = Null
         /\ store' = store]_vars

C7_Witness ==
  \E c \in Calls :
    /\ c # initCallback
    /\ calls[c].kind = "saveData"
    /\ calls[c].items # <<>>
    /\ Truthy(calls[c].initResult)
    /\ calls[c].cbCount = 1

\* C8: after initialization has settled successfully no call is on the waiter
\* queue: a call made then goes on to its document operations.
C8_NoWaiterAfterSuccess ==
  settled = Null => \A c \in Calls : calls[c].phase # "pending"

\* C9: a create answered with conflict does not fail initialization: after
\* createDatabase the collection step is started, after createCollection
\* initialization settles as success, and a call all of whose other requests
\* were answered without failure completes without error.
C9_ConflictIsSuccess ==
  /\ answered["createDatabase"] = Conflict => issued["readCollection"] = 1
  /\ answered["createCollection"] = Conflict => settled = Null
  /\ \A c \in Calls :
       (/\ Conflict \in Range(answered)
        /\ Failure \notin Range(answered)
        /\ Failure \notin Range(calls[c].itemAnswers)
        /\ calls[c].cbCount = 1)
       => calls[c].cbErr = Null

C9_Witness ==
  /\ answered["createDatabase"] = Conflict
  /\ answered["createCollection"] = Conflict
  /\ \E c \in Calls :
       /\ calls[c].kind = "saveData"
       /\ calls[c].items # <<>>
       /\ calls[c].cbCount = 1
       /\ calls[c].cbErr = Null

\* C10: a load none of whose reads failed other than with not-found calls back
\* without error, and its field for a key answered not-found holds the default
\* document, whose data is null.
C10_NotFoundIsDefault ==
  \A c \in Calls :
    (/\ calls[c].kind = "getData"
     /\ calls[c].initResult = Null
     /\ calls[c].cbCount >= 1
     /\ Failure \notin Range(calls[c].itemAnswers))
    => /\ calls[c].cbErr = Null
       /\ \A idx \in DOMAIN calls[c].itemAnswers :
            calls[c].itemAnswers[idx] = NotFound =>
              calls[c].cbData[calls[c].items[idx].type] = [data |-> Null]

C10_Witness ==
  \E c \in Calls :
    /\ calls[c].kind = "getData"
    /\ calls[c].cbCount = 1
    /\ calls[c].cbErr = Null
    /\ NotFound \in Range(calls[c].itemAnswers)

(***************************************************************************)
(* Key derivation and document operations of one call.                     *)
(***************************************************************************)
DocsLink == "dbs/foo/colls/bar/docs/"
UserLink(u) == DocsLink \o "user:" \o u
ConversationLink(v) == DocsLink \o "conversation:" \o v
PrivateLink(v, u) == DocsLink \o "conversation:" \o v \o ";user:" \o u
WantsUserData(context) == context.userId # "" /\ context.persistUserData
WantsPrivate(context) == context.userId # "" /\ context.conversationId # ""
WantsConversation(context) ==
  context.conversationId # "" /\ context.persistConversationData
ExpectedLinks(context) ==
  (IF WantsUserData(context) THEN {UserLink(context.userId)} ELSE {})
  \cup (IF WantsPrivate(context)
          THEN {PrivateLink(context.conversationId, context.userId)} ELSE {})
  \cup (IF WantsConversation(context)
          THEN {ConversationLink(context.conversationId)} ELSE {})

\* the document a request addresses
Addressed(r) ==
  IF r.op = "readDocument" THEN r.link ELSE r.link \o "/docs/" \o r.body.id
\* the documents call c has handed a request for, answered or not
Touched(c) ==
  {Addressed(r) : r \in {q \in requests : q.call = c}}
  \cup {DocLink(calls[c].items[i].id) : i \in DOMAIN calls[c].itemAnswers}
DoneOk(c) == calls[c].cbCount = 1 /\ calls[c].cbErr = Null

\* C11: a call never hands the client a request for a user-data document
\* unless userId is set and persistUserData is true, and then a call that
\* completes without error has read (load) or written (save) user:{userId}.
C11_UserDataKey ==
  \A c \in Calls :
    Made(c) =>
      LET context == calls[c].context IN
      /\ ~WantsUserData(context) =>
           \A u \in Ids : UserLink(u) \notin Touched(c)
      /\ (WantsUserData(context) /\ DoneOk(c)) =>
           /\ UserLink(context.userId) \in Touched(c)
           /\ calls[c].kind = "saveData" =>
                UserLink(context.userId) \in DOMAIN store

C11_Witness ==
  /\ calls[1].kind = "getData"
  /\ calls[1].context = Context("1", "", TRUE, TRUE)
  /\ DoneOk(1)
  /\ Touched(1) = {UserLink("1")}

\* C12: a call never hands the client a request for a private-conversation
\* document unless userId and conversationId are both set, and then, whatever
\* the two persistence flags, a call that completes without error has read or
\* written conversation:{conversationId};user:{userId}.
C12_PrivateKey ==
  \A c \in Calls :
    Made(c) =>
      LET context == calls[c].context IN
      /\ ~WantsPrivate(context) =>
           \A u \in Ids, v \in Ids : PrivateLink(v, u) \notin Touched(c)
      /\ (WantsPrivate(context) /\ DoneOk(c)) =>
           /\ PrivateLink(context.conversationId, context.userId) \in Touched(c)
           /\ calls[c].kind = "saveData" =>
                PrivateLink(context.conversationId, context.userId)
                  \in DOMAIN store

C12_Witness ==
  /\ calls[1].kind = "saveData"
  /\ calls[1].context = Context("1", "1", FALSE, FALSE)
  /\ DoneOk(1)
  /\ Touched(1) = {PrivateLink("1", "1")}

\* C13: a call never hands the client a request for a conversation-data
\* document unless conversationId is set and persistConversationData is true,
\* and then, whatever userId and persistUserData, a call that completes
\* without error has read or written conversation:{conversationId}.
C13_ConversationKey ==
  \A c \in Calls :
    Made(c) =>
      LET context == calls[c].context IN
      /\ ~WantsConversation(context) =>
           \A v \in Ids : ConversationLink(v) \notin Touched(c)
      /\ (WantsConversation(context) /\ DoneOk(c)) =>
           /\ ConversationLink(context.conversationId) \in Touched(c)
           /\ calls[c].kind = "saveData" =>
                ConversationLink(context.conversationId) \in DOMAIN store

C13_Witness ==
  /\ calls[1].kind = "getData"
  /\ calls[1].context = Context("", "1", TRUE, TRUE)
  /\ DoneOk(1)
  /\ Touched(1) = {ConversationLink("1")}

\* the fields of the data record whose keys are derived from the context,
\* each with the link of its document and its document id
DerivedFields(context) ==
  (IF WantsUserData(context)
     THEN {[field |-> "userData", link |-> UserLink(context.userId),
            id |-> "user:" \o context.userId]}
     ELSE {})
  \cup (IF WantsPrivate(context)
          THEN {[field |-> "privateConversationData",
                 link |-> PrivateLink(context.conversationId, context.userId),
                 id |-> "conversation:" \o context.conversationId
                          \o ";user:" \o context.userId]}
          ELSE {})
  \cup (IF WantsConversation(context)
          THEN {[field |-> "conversationData",
                 link |-> ConversationLink(context.conversationId),
                 id |-> "conversation:" \o context.conversationId]}
          ELSE {})

\* C14 as claimed: after a save completes without error, every derived key's
\* document is stored with that key as id and the input field as data.
C14_StoredEqualsInput ==
  \A c \in Calls :
    (calls[c].kind = "saveData" /\ DoneOk(c)) =>
      \A d \in DerivedFields(calls[c].context) :
        /\ d.link \in DOMAIN store
        /\ store[d.link].id = d.id
        /\ store[d.link].data = calls[c].data[d.field]

\* C14 as amended: after a save completes without error (no other save
\* writing the same keys), every derived key's document is stored with that
\* key as id, and its data is the input field, or an empty object when the
\* input record has no value for the field.
C14_StoredEqualsInputOrEmpty ==
  \A c \in Calls :
    (calls[c].kind = "saveData" /\ DoneOk(c)) =>
      \A d \in DerivedFields(calls[c].context) :
        /\ d.link \in DOMAIN store
        /\ store[d.link].id = d.id
        /\ store[d.link].data =
             (IF calls[c].data[d.field] = Undefined
                THEN EmptyObject ELSE calls[c].data[d.field])

C14_Witness ==
  /\ calls[1].kind = "saveData"
  /\ calls[1].context = Context("1", "1", TRUE, TRUE)
  /\ calls[1].data = PartialData
  /\ DoneOk(1)
  /\ UserLink("1") \in DOMAIN store
  /\ store[UserLink("1")] = [id |-> "user:1", data |-> Obj("u2")]
  /\ store[PrivateLink("1", "1")] =
       [id |-> "conversation:1;user:1", data |-> EmptyObject]
  /\ store[ConversationLink("1")] = [id |-> "conversation:1", data |-> Obj("c2")]

\* the document ids that can be derived from a context
DerivedIds(context) == {d.id : d \in DerivedFields(context)}

\* C15: every upsert request handed to the client carries
\* disableAutomaticIdGeneration = true and a body whose id is a key derived
\* from the context of its save call.
C15_ExplicitId ==
  \A r \in requests :
    r.op = "upsertDocument" =>
      /\ "disableAutomaticIdGeneration" \in DOMAIN r.options
      /\ r.options.disableAutomaticIdGeneration = TRUE
      /\ "id" \in DOMAIN r.body
      /\ calls[r.call].kind = "saveData"
      /\ r.body.id \in DerivedIds(calls[r.call].context)

C15_Witness ==
  \E r \in requests :
    /\ r.op = "upsertDocument"
    /\ r.body.id = "conversation:1;user:1"
    /\ calls[r.call].context = Context("1", "1", FALSE, TRUE)

\* C16: with a configured throughput above 10000 every readDocument and
\* upsertDocument request carries as partition key the id of the document it
\* addresses; with a throughput of 10000 or less it carries null.
C16_PartitionKey ==
  \A r \in requests :
    /\ collectionThroughput > 10000 =>
         /\ "str" \in DOMAIN r.options.partitionKey
         /\ Addressed(r) = DocsLink \o r.options.partitionKey.str
         /\ r.op = "upsertDocument" =>
              r.body.id = r.options.partitionKey.str
    /\ collectionThroughput <= 10000 => r.options.partitionKey = Null

C16_Witness ==
  /\ collectionThroughput = 10001
  /\ \E r \in requests :
       r.op = "readDocument" /\ r.options.partitionKey = Str("user:1")
  /\ \E r \in requests :
       r.op = "readDocument" /\ r.options.partitionKey = Str("conversation:1")

\* C17: constructed without a collection throughput, the coordinator has a
\* throughput of 10000, is not partitioned, and every document request
\* carries a null partition key.
C17_DefaultNotPartitioned ==
  /\ collectionThroughput = 10000
  /\ ~partitioned
  /\ \A r \in requests : r.options.partitionKey = Null

\* C18: the createCollection request names the configured collection, carries
\* the configured throughput and time-to-live, and carries a hash partition
\* scheme on /id exactly when the configured throughput exceeds 10000.
C18_CreateCollection ==
  (initRequest # Null /\ initRequest.op = "createCollection") =>
    /\ answered["readCollection"] = NotFound
    /\ initRequest.link = "dbs/foo"
    /\ initRequest.body.id = "bar"
    /\ initRequest.body.defaultTtl = defaultTtl
    /\ initRequest.options.offerThroughput = collectionThroughput
    /\ initRequest.body.partitionKey =
         (IF collectionThroughput > 10000
            THEN [paths |-> <<"/id">>, kind |-> "Hash"]
            ELSE Null)

C18_Witness ==
  /\ initRequest # Null
  /\ initRequest.op = "createCollection"
  /\ collectionThroughput = 10001
  /\ defaultTtl = 3600
  /\ initRequest.body.partitionKey = [paths |-> <<"/id">>, kind |-> "Hash"]

\* the documents the save calls made so far may write
SavedLinks ==
  UNION {ExpectedLinks(calls[c].context) :
           c \in {d \in Calls : calls[d].kind = "saveData"}}

\* C19: no step creates, changes or removes a document other than those whose
\* ids are derived from the context of a save call.
C19_SaveFrame ==
  [][\A link \in DOMAIN store \cup DOMAIN store' :
       link \notin SavedLinks' =>
         /\ link \in DOMAIN store
         /\ link \in DOMAIN store'
         /\ store'[link] = store[link]]_vars

C19_Witness ==
  /\ calls[1].kind = "saveData"
  /\ calls[1].context = Context("1", "1", FALSE, TRUE)
  /\ calls[1].data = FullData
  /\ DoneOk(1)
  /\ DOMAIN store = DOMAIN PreStore
  /\ store[UserLink("1")] = StoredDocument("user:1")
  /\ store[UserLink("2")] = StoredDocument("user:2")
  /\ store[PrivateLink("1", "1")].data = Obj("p")
  /\ store[ConversationLink("1")].data = Obj("c")

\* C20: what a callback receives is either an Error value (never a value
\* carrying code and body) with a null result, or a null error, with for a
\* load the record of the fields of its keys.
C20_OneErrorShape ==
  \A c \in Calls :
    calls[c].cbCount >= 1 =>
      \/ /\ calls[c].cbErr = Null
         /\ calls[c].kind = "getData" =>
              DOMAIN calls[c].cbData =
                {calls[c].items[i].type : i \in DOMAIN calls[c].items}
      \/ /\ "isError" \in DOMAIN calls[c].cbErr
         /\ "message" \in DOMAIN calls[c].cbErr
         /\ "code" \notin DOMAIN calls[c].cbErr
         /\ calls[c].cbData = Null

C20_Witness ==
  /\ \E c \in Calls :
       /\ calls[c].initResult = Null
       /\ Failure \in Range(calls[c].itemAnswers)
       /\ calls[c].cbErr = Error("500: Internal Server Error")
       /\ calls[c].cbData = Null
  /\ \E c \in Calls :
       /\ calls[c].kind = "getData"
       /\ calls[c].cbErr = Null
       /\ DOMAIN calls[c].cbData = {"userData", "privateConversationData"}

(***************************************************************************)
(* Error normalization.                                                    *)
(***************************************************************************)
\* the errors the upserts of call c were answered with
FailedAnswers(c) == Range(calls[c].itemAnswers) \ {Null}
\* a save whose callback received the one error its upserts were answered with
FailedWith(c, e) ==
  /\ calls[c].kind = "saveData"
  /\ calls[c].initResult = Null
  /\ calls[c].cbCount = 1
  /\ FailedAnswers(c) = {e}

\* C21 as claimed: the message is made of code and body whenever the error
\* carries both, of the message field when there is one otherwise, and is
\* 'Unknown error' otherwise.
C21_CodeAndBodyFirst ==
  \A c \in Calls, e \in ErrorShapes :
    FailedWith(c, e) =>
      calls[c].cbErr.message =
        (IF "code" \in DOMAIN e /\ "body" \in DOMAIN e
           THEN ToString(e.code) \o ": " \o e.body
         ELSE IF "message" \in DOMAIN e THEN e.message
         ELSE "Unknown error")

\* C21 as amended: an Error instance is passed on as it is; otherwise the
\* message is the message field whenever the error has one (also when it
\* carries code and body), '{code}: {body}' when it has a code and no message
\* (with 'undefined' for a missing body), and 'Unknown error' otherwise.
C21_MessageFirst ==
  \A c \in Calls, e \in ErrorShapes :
    FailedWith(c, e) =>
      /\ calls[c].cbData = Null
      /\ calls[c].cbErr =
           (IF "isError" \in DOMAIN e THEN e
            ELSE IF "message" \in DOMAIN e THEN Error(e.message)
            ELSE IF "code" \in DOMAIN e /\ "body" \in DOMAIN e
              THEN Error(ToString(e.code) \o ": " \o e.body)
            ELSE IF "code" \in DOMAIN e
              THEN Error(ToString(e.code) \o ": undefined")
            ELSE Error("Unknown error"))

C21_Witness ==
  /\ FailedWith(1, [code |-> 500, body |-> "Internal Server Error",
                    message |-> "busy"])
  /\ calls[1].cbErr = Error("busy")

(***************************************************************************)
(* Bounded fan-out.                                                        *)
(***************************************************************************)
\* the document requests of call c the client has not answered yet
Outstanding(c) == {r \in requests : r.call = c}

\* C22: the document requests of one call that the client has not answered
\* yet are never more than 3 in parallel mode and never more than 1 in serial
\* mode.
C22_BoundedInFlight ==
  /\ maxConcurrency \in {1, 3}
  /\ \A c \in Calls :
       /\ maxConcurrency = 3 => Cardinality(Outstanding(c)) <= 3
       /\ maxConcurrency = 1 => Cardinality(Outstanding(c)) <= 1

C22_Witness ==
  /\ maxConcurrency = 1
  /\ Len(calls[1].items) = 3
  /\ DOMAIN calls[1].itemAnswers = {1}
  /\ Cardinality(Outstanding(1)) = 1
  /\ \E r \in requests : r.idx = 2

(***************************************************************************)
(* No retry.                                                               *)
(***************************************************************************)
\* C23: nothing is retried.  The keys of one call are distinct, no document
\* is the target of two of its requests, an item that was answered is never
\* handed to the client again, and an initialization request that was
\* answered (with a failure or not) is never handed to the client again.
C23_NoRetry ==
  /\ \A c \in Calls : \A i, j \in DOMAIN calls[c].items :
       i # j => calls[c].items[i].id # calls[c].items[j].id
  /\ \A r \in requests :
       /\ r.idx \notin DOMAIN calls[r.call].itemAnswers
       /\ \A q \in requests :
            (q.call = r.call /\ Addressed(q) = Addressed(r)) => q = r
  /\ \A op \in InitOps :
       /\ issued[op] <= 1
       /\ answered[op] # Undefined =>
            (initRequest = Null \/ initRequest.op # op)

C23_Witness ==
  /\ answered["readDatabase"] = NotFound
  /\ answered["createDatabase"] = Conflict
  /\ answered["readCollection"] = Null
  /\ requests = {}
  /\ \E c \in Calls :
       /\ calls[c].kind = "saveData"
       /\ Len(calls[c].items) = 2
       /\ DOMAIN calls[c].itemAnswers = {1}
       /\ calls[c].itemAnswers[1] = Failure
       /\ calls[c].cbCount = 1

(***************************************************************************)
(* The optional callback of saveData.                                      *)
(***************************************************************************)
\* C24: a save called without a callback raises no error, whether its writes
\* succeed or one of them fails.
C24_SaveWithoutCallback ==
  \A c \in Calls :
    (calls[c].kind = "saveData" /\ ~calls[c].callback) =>
      calls[c].raised = Undefined

(***************************************************************************)
(* The initialization sequence.                                            *)
(***************************************************************************)
\* the error the database step failed with, Null when it has not failed
DatabaseStepError ==
  IF answered["readDatabase"] = Failure THEN Failure
  ELSE IF answered["createDatabase"] = Failure THEN Failure
  ELSE Null

\* C25: no readCollection or createCollection request is handed to the client
\* before the database step has succeeded, and when the database step fails
\* no collection request is ever handed and initialization settles with the
\* error of the database step.
C25_StrictSequence ==
  /\ (issued["readCollection"] > 0 \/ issued["createCollection"] > 0) =>
       /\ DatabaseStepSucceeded
       /\ DatabaseStepError = Null
  /\ (initRequest # Null
      /\ initRequest.op \in {"readDatabase", "createDatabase"}) =>
       issued["readCollection"] = 0 /\ issued["createCollection"] = 0
  /\ DatabaseStepError # Null =>
       /\ issued["readCollection"] = 0
       /\ issued["createCollection"] = 0
       /\ initRequest = Null
       /\ settled = DatabaseStepError

C25_Witness ==
  /\ answered["readDatabase"] = NotFound
  /\ answered["createDatabase"] = Failure
  /\ settled = Failure
  /\ issued["readCollection"] = 0
  /\ \E c \in Calls : calls[c].cbErr = Error("500: Internal Server Error")

\* C26: once the sequence has settled the initialization state is no longer
\* in progress (false) or unset: it is true after success and holds the error
\* after failure.
C26_StateLeavesInProgress ==
  settled # Undefined =>
    /\ initialization \notin {False, Undefined}
    /\ settled = Null => initialization = True
    /\ Truthy(settled) => initialization = settled

\* C27: after initialization has failed, every call made on the coordinator
\* has been answered with that failure once the client has nothing left to
\* answer, and no initialization request was handed for it again and no
\* document request at all.
C27_StickyFailure ==
  (Truthy(settled) /\ Quiescent) =>
    /\ \A c \in Calls :
         Made(c) =>
           /\ calls[c].cbCount = 1
           /\ calls[c].cbErr = mapDocumentDbError(settled, Undefined)[1]
           /\ calls[c].next = 1
    /\ \A op \in InitOps : issued[op] <= 1

\* C28: a create request is handed to the client only after the probe of the
\* same resource was answered not-found; when the probe found the resource no
\* create request for it is ever handed.
C28_CreateOnlyIfAbsent ==
  /\ issued["createDatabase"] > 0 => answered["readDatabase"] = NotFound
  /\ issued["createCollection"] > 0 => answered["readCollection"] = NotFound
  /\ answered["readDatabase"] = Null => issued["createDatabase"] = 0
  /\ answered["readCollection"] = Null => issued["createCollection"] = 0

C28_Witness ==
  /\ answered["readDatabase"] = Null
  /\ answered["readCollection"] = Null
  /\ settled = Null
  /\ issued["createDatabase"] = 0
  /\ issued["createCollection"] = 0
  /\ \E c \in Calls : calls[c].cbCount = 1 /\ calls[c].itemAnswers # <<>>

\* C29: a probe answered not-found is followed by the create request of its
\* resource; a probe answered with another error settles initialization with
\* that error, and no create request for the resource is handed.
C29_ProbeAnswers ==
  /\ answered["readDatabase"] = NotFound => issued["createDatabase"] = 1
  /\ answered["readCollection"] = NotFound => issued["createCollection"] = 1
  /\ answered["readDatabase"] = Failure =>
       settled = Failure /\ issued["createDatabase"] = 0
  /\ answered["readCollection"] = Failure =>
       settled = Failure /\ issued["createCollection"] = 0

C29_Witness ==
  /\ answered["readDatabase"] = NotFound
  /\ answered["createDatabase"] = Null
  /\ answered["readCollection"] = Failure
  /\ issued["createCollection"] = 0
  /\ settled = Failure
  /\ \E c \in Calls : c # initCallback /\ calls[c].cbCount = 1

(***************************************************************************)
(* Failure of one document operation among several.                        *)
(***************************************************************************)
\* C30: a call one of whose document operations failed has had its callback
\* invoked with an error and no data record, whatever its other operations
\* were answered, before or after.
C30_FirstErrorWins ==
  \A c \in Calls :
    (calls[c].initResult = Null /\ Failure \in Range(calls[c].itemAnswers)) =>
      /\ calls[c].cbCount = 1
      /\ calls[c].cbErr = Error("500: Internal Server Error")
      /\ calls[c].cbData = Null

C30_Witness ==
  /\ calls[1].kind = "getData"
  /\ DOMAIN calls[1].itemAnswers = {1, 2, 3}
  /\ calls[1].itemAnswers[1] = Null
  /\ calls[1].itemAnswers[2] = Failure
  /\ calls[1].itemAnswers[3] = Null
  /\ DOMAIN calls[1].newObj = {"userData", "conversationData"}
  /\ calls[1].cbCount = 1
  /\ calls[1].cbData = Null

(***************************************************************************)
(* The body of a document without a value.                                 *)
(***************************************************************************)
\* the field of the data record that the document id of a save stands for
FieldOf(context, docId) ==
  (CHOOSE d \in DerivedFields(context) : d.id = docId).field

\* C31: no upsert request carries an undefined or missing data; when the data
\* record has no value for the field of a derived key, the upsert for that
\* key carries an empty object, and that is what the store holds once it was
\* answered without error.
C31_EmptyObjectForMissing ==
  /\ \A r \in requests :
       r.op = "upsertDocument" =>
         /\ "data" \in DOMAIN r.body
         /\ r.body.data # Undefined
         /\ calls[r.call].data[FieldOf(calls[r.call].context, r.body.id)]
              = Undefined => r.body.data = EmptyObject
  /\ \A c \in Calls :
       calls[c].kind = "saveData" =>
         \A i \in DOMAIN calls[c].itemAnswers :
           (/\ calls[c].itemAnswers[i] = Null
            /\ calls[c].data[FieldOf(calls[c].context, calls[c].items[i].id)]
                 = Undefined)
           => store[DocLink(calls[c].items[i].id)].data = EmptyObject

C31_Witness ==
  /\ calls[1].kind = "saveData"
  /\ calls[1].context = Context("1", "1", TRUE, TRUE)
  /\ calls[1].data = PartialData
  /\ \E r \in requests :
       r.body = [id |-> "conversation:1;user:1", data |-> EmptyObject]
  /\ UserLink("1") \in DOMAIN store
  /\ store[UserLink("1")].data = Obj("u2")

(***************************************************************************)
(* The result of one call as a function of its inputs alone.               *)
(***************************************************************************)
\* the store the call started on (user:2 is the key of no call)
StartStore == IF UserLink("2") \in DOMAIN store THEN PreStore ELSE <<>>

\* what a save of data under context makes of a store, whatever the mode
SavedStore(start, context, data) ==
  [link \in DOMAIN start \cup ExpectedLinks(context) |->
     IF link \in ExpectedLinks(context)
       THEN LET d == CHOOSE e \in DerivedFields(context) : e.link = link
            IN  [id |-> d.id,
                 data |-> IF data[d.field] = Undefined
                            THEN EmptyObject ELSE data[d.field]]
       ELSE start[link]]

\* what a load under context returns from a store, whatever the mode
LoadedRecord(from, context) ==
  [field \in {d.field : d \in DerivedFields(context)} |->
     LET d == CHOOSE e \in DerivedFields(context) : e.field = field
     IN  IF d.link \in DOMAIN from THEN from[d.link] ELSE [data |-> Null]]

\* C32: the store a save that completed without error leaves, and the record
\* a load that completed without error returns, are determined by the
\* context, the data record and the store the call started on: they are the
\* same in parallel and in serial mode, whatever the order of the answers.
C32_ModeIndependent ==
  \A c \in Calls :
    DoneOk(c) =>
      /\ calls[c].kind = "saveData" =>
           store = SavedStore(StartStore, calls[c].context, calls[c].data)
      /\ calls[c].kind = "getData" =>
           /\ store = StartStore
           /\ calls[c].cbData = LoadedRecord(StartStore, calls[c].context)

C32_Witness ==
  /\ maxConcurrency = 1
  /\ calls[1].kind = "saveData"
  /\ calls[1].context = Context("1", "1", TRUE, TRUE)
  /\ calls[1].data = FullData
  /\ DoneOk(1)
  /\ StartStore = PreStore
  /\ store = SavedStore(PreStore, calls[1].context, FullData)
  /\ store[ConversationLink("1")].data = Obj("c")

(***************************************************************************)
(* The order of the upserts of a save.                                     *)
(***************************************************************************)
\* the place of a field in the order user data, private data, conversation
\* data
Rank(field) ==
  IF field = "userData" THEN 1
  ELSE IF field = "privateConversationData" THEN 2
  ELSE 3

\* the items of call c that were handed to the client, answered or not
Handed(c) ==
  DOMAIN calls[c].itemAnswers \cup {r.idx : r \in Outstanding(c)}

\* C33: the upserts of a save are handed to the client in the order user-data
\* document, private-conversation document, conversation-data document: what
\* was handed so far is always a first part of that order, so that the first
\* upsert of a save with userId set and persistUserData true is the one of
\* user:{userId}; in serial mode an upsert is handed only when every earlier
\* one was answered.
C33_UpsertOrder ==
  \A c \in Calls :
    calls[c].kind = "saveData" =>
      LET context == calls[c].context
          items == calls[c].items
      IN  /\ \A i, j \in DOMAIN items :
               i < j => Rank(FieldOf(context, items[i].id))
                          < Rank(FieldOf(context, items[j].id))
          /\ \E n \in 0..Len(items) : Handed(c) = 1..n
          /\ (WantsUserData(context) /\ Handed(c) # {}) =>
               \/ \E r \in Outstanding(c) :
                    r.idx = 1 /\ r.body.id = "user:" \o context.userId
               \/ /\ 1 \in DOMAIN calls[c].itemAnswers
                  /\ items[1].id = "user:" \o context.userId
          /\ maxConcurrency = 1 =>
               \A r \in Outstanding(c) :
                 \A i \in 1..(r.idx - 1) : i \in DOMAIN calls[c].itemAnswers

C33_Witness ==
  /\ maxConcurrency = 1
  /\ calls[1].kind = "saveData"
  /\ calls[1].context = Context("1", "1", TRUE, TRUE)
  /\ DOMAIN calls[1].itemAnswers = {1, 2}
  /\ calls[1].items[1].id = "user:1"
  /\ calls[1].items[2].id = "conversation:1;user:1"
  /\ \E r \in requests : r.idx = 3 /\ r.body.id = "conversation:1"

(***************************************************************************)
(* A context from which no key is derived.                                 *)
(***************************************************************************)
NoKeys(c) == Made(c) /\ ExpectedLinks(calls[c].context) = {}

\* C34 as claimed: a call whose context derives no key hands no document
\* request to the client and calls back without error, a load with an empty
\* record.
C34_NoKeysNoError ==
  \A c \in Calls :
    NoKeys(c) =>
      /\ Touched(c) = {}
      /\ calls[c].cbCount >= 1 =>
           /\ calls[c].cbErr = Null
           /\ calls[c].kind = "getData" => calls[c].cbData = <<>>

\* C34 as amended: a call whose context derives no key hands no document
\* request to the client and leaves the store as it was; released by a
\* successful initialization it calls back at once without error, a load with
\* an empty record; released by a failed initialization it calls back with
\* the error of initialization.
C34_NoKeysNoOperations ==
  \A c \in Calls :
    NoKeys(c) =>
      /\ Touched(c) = {}
      /\ calls[c].items = <<>>
      /\ store = StartStore
      /\ calls[c].initResult = Null =>
           /\ calls[c].cbCount = 1
           /\ calls[c].cbErr = Null
           /\ calls[c].kind = "getData" => calls[c].cbData = <<>>
      /\ Truthy(calls[c].initResult) =>
           /\ calls[c].cbCount = 1
           /\ calls[c].cbErr = Error("500: Internal Server Error")
           /\ calls[c].cbData = Null
      /\ calls[c].initResult = Undefined => calls[c].cbCount = 0

C34_Witness ==
  /\ calls[1].kind = "getData"
  /\ calls[1].context = Context("1", "", FALSE, TRUE)
  /\ calls[1].initResult = Null
  /\ DoneOk(1)
  /\ calls[1].cbData = <<>>
  /\ requests = {}
  /\ store = PreStore

(***************************************************************************)
(* Round trip.                                                             *)
(***************************************************************************)
\* C35: a load made with the context of a save that completed without error
\* has, once the client has answered everything and none of its answers to
\* the load was a failure, called back without error with a record whose
\* field for every derived key is the body the save was given for it.
C35_RoundTrip ==
  (/\ calls[2].kind = "getData"
   /\ Quiescent
   /\ Failure \notin Range(answered)
   /\ Failure \notin Range(calls[2].itemAnswers))
  => /\ calls[2].cbCount = 1
     /\ calls[2].cbErr = Null
     /\ \A d \in DerivedFields(calls[2].context) :
          calls[2].cbData[d.field] = calls[1].data[d.field]

(***************************************************************************)
(* Calls made from inside a callback during settlement.                    *)
(***************************************************************************)
\* C36: a call that waits for initialization is on the waiter queue: none is
\* taken off the queue without its continuation being invoked.
C36_ReentrantNotLost ==
  \A c \in DOMAIN calls :
    calls[c].phase = "pending" => c \in Range(pendingInit)

(***************************************************************************)
(* Document ids of different users and conversations.                      *)
(***************************************************************************)
\* C37: when two calls derive the same document id, the id stands for the
\* same field in both, and the two contexts have the same userId (user data,
\* private data) and the same conversationId (private data, conversation
\* data).
C37_NoCollision ==
  \A c, d \in Calls :
    \A i \in DOMAIN calls[c].items, j \in DOMAIN calls[d].items :
      calls[c].items[i].id = calls[d].items[j].id =>
        LET f == FieldOf(calls[c].context, calls[c].items[i].id)
            g == FieldOf(calls[d].context, calls[d].items[j].id)
        IN  /\ f = g
            /\ f \in {"userData", "privateConversationData"} =>
                 calls[c].context.userId = calls[d].context.userId
            /\ f \in {"privateConversationData", "conversationData"} =>
                 calls[c].context.conversationId
                   = calls[d].context.conversationId

(***************************************************************************)
(* What a load leaves alone, and what a failed save leaves behind.         *)
(***************************************************************************)
\* C38: no request of a load is an upsert, and a step changes the store only
\* by answering the upsert of a save: the steps of a load (the call, the
\* answers to its reads, found, not found or failed) leave every document as
\* it was.
C38_LoadReadsOnly ==
  [][/\ \A r \in requests' :
          calls'[r.call].kind = "getData" => r.op = "readDocument"
     /\ store' # store =>
          \E r \in requests \ requests' :
            /\ r.op = "upsertDocument"
            /\ calls[r.call].kind = "saveData"
            /\ \A link \in DOMAIN store :
                 link # DocLink(r.body.id) =>
                   link \in DOMAIN store' /\ store'[link] = store[link]]_vars

C38_Witness ==
  /\ calls[1].kind = "getData"
  /\ calls[1].cbCount = 1
  /\ DOMAIN calls[1].itemAnswers = {1, 2, 3}
  /\ calls[1].itemAnswers[1] = NotFound
  /\ calls[1].itemAnswers[2] = Failure
  /\ calls[1].itemAnswers[3] = NotFound
  /\ store = <<>>

\* C39: in serial mode, once an upsert of a save has failed no later document
\* of that save is handed to the client, the documents before it are stored
\* as the save wrote them, and the failed one and the later ones are as they
\* were before the save.
C39_SerialStopsAtFailure ==
  \A c \in Calls :
    (maxConcurrency = 1 /\ calls[c].kind = "saveData") =>
      \A i \in DOMAIN calls[c].itemAnswers :
        calls[c].itemAnswers[i] = Failure =>
          /\ Handed(c) = 1..i
          /\ \A j \in 1..(i - 1) :
               /\ calls[c].itemAnswers[j] = Null
               /\ DocLink(calls[c].items[j].id) \in DOMAIN store
               /\ store[DocLink(calls[c].items[j].id)] =
                    [id |-> calls[c].items[j].id, data |-> calls[c].items[j].data]
          /\ \A j \in i..Len(calls[c].items) :
               LET link == DocLink(calls[c].items[j].id) IN
               IF link \in DOMAIN StartStore
                 THEN link \in DOMAIN store /\ store[link] = StartStore[link]
                 ELSE link \notin DOMAIN store

C39_Witness ==
  /\ maxConcurrency = 1
  /\ calls[1].kind = "saveData"
  /\ calls[1].data = FullData
  /\ Len(calls[1].items) = 3
  /\ DOMAIN calls[1].itemAnswers = {1, 2}
  /\ calls[1].itemAnswers[2] = Failure
  /\ requests = {}
  /\ calls[1].cbErr = Error("500: Internal Server Error")
  /\ UserLink("1") \in DOMAIN store
  /\ store[UserLink("1")].data = Obj("u")
  /\ store[ConversationLink("1")] = StoredDocument("conversation:1")

====
